---- MODULE Spec2Model ----
(***************************************************************************)
(* Model of the task-manager crate of polaris-trade-libs:                  *)
(*   core_allocator.rs  CoreAllocator (allocate, get_conflicts, validate)  *)
(*   task_manager.rs    TaskManager (register*, run, validate_allocations) *)
(*                      and the per-execution wrapper supervise            *)
(*   error.rs           TaskError / ShutdownError values                   *)
(* The supervisor is a tokio_graceful_shutdown Toplevel: one subsystem per *)
(* worker, a root cancellation token whose children are the tokens handed  *)
(* to the workers, an error channel fed by failed or panicked subsystems,  *)
(* and handle_shutdown_requests(shutdown_timeout) which joins all          *)
(* subsystems, bounded by the timeout once shutdown has been requested.    *)
(* Time is counted in ticks after the shutdown request.                    *)
(***************************************************************************)
EXTENDS Integers, Sequences, FiniteSets, TLC

\* ------------------------------------------------------------------ bounds
MaxExec == 2          \* executions (workers + factory instances) per run
MaxTimeout == 1       \* shutdown_timeout ranges over 1..MaxTimeout ticks
MaxCores == 2         \* the platform exposes no core ids or cores 0..MaxCores-1
AllocCores == 4       \* allocator runs: the cores are a subset of 0..AllocCores-1
MaxCalls == 4         \* allocator runs: allocate calls that were given a core

\* worker names are unique: the k-th single-instance worker registered is
\* TaskNames[k], and each factory takes an unused name of GroupNames
TaskNames == << "a", "b", "c", "d" >>
GroupNames == {"g"}

\* ------------------------------------------------------------------ values
\* Option<T>: None is the empty tuple, Some(v) the one-element tuple.
NoneOpt == << >>
Some(v) == << v >>
IsSome(o) == o # << >>
Unwrap(o) == o[1]

\* CoreAffinityConfig
AffNone == [kind |-> "None"]
Fixed(id) == [kind |-> "Fixed", id |-> id]
Range(start, end) == [kind |-> "Range", start |-> start, end |-> end]
Auto == [kind |-> "Auto"]

\* affinities a registration may ask for; core MaxCores is never available
Affinities ==
    {AffNone, Auto, Fixed(0), Fixed(MaxCores),
     Range(0, MaxCores - 1), Range(MaxCores, MaxCores)}

\* core_affinity::get_core_ids(): None, or ids 0..n-1 in order
CoreIdsOf(n) == [i \in 1 .. n |-> i - 1]
Platforms == {CoreIdsOf(0), CoreIdsOf(MaxCores)}

\* mutant: every core id passes for available
SeqContains_Always(s, x) == TRUE

SeqContains(s, x) == \E i \in 1 .. Len(s) : s[i] = x
\* mutant: every id of the range, available or not
FilterRange_AllIds(cores, start, end) ==
    [i \in 1 .. (IF start <= end THEN end - start + 1 ELSE 0) |-> start + i - 1]

FilterRange(cores, start, end) ==
    SelectSeq(cores, LAMBDA c : start <= c /\ c <= end)

VARIABLES
    config,           \* TaskManagerConfig
    tasks,            \* TaskManager.tasks: sequence of workers [name]
    task_affinities,  \* TaskManager.task_affinities
    factories,        \* TaskManager.factories: [name, instances, affinity]
    core_ids,         \* what core_affinity::get_core_ids() answers in this process
    allocator,        \* the CoreAllocator of validate_allocations
    mgr,              \* position of run(): "setup", "running", "returned"
    exec,             \* the executions (subsystems), in start order
    shutdown,         \* root cancellation token: "none" or what cancelled it
    errors,           \* Toplevel error channel: sequence of SubsystemError
    elapsed,          \* ticks since the shutdown request
    result,           \* what run() returned: "none" until it returns
    last_call,        \* the allocate call just made: arguments, allocator before, answer
    assigned,         \* the << core, name >> pairs allocate has answered, in call order
    auto_cores        \* the cores the successful Auto calls have answered, in call order

\* what a client of the allocator has seen of it
alloc_vars == << last_call, assigned, auto_cores >>

vars == << config, tasks, task_affinities, factories, core_ids, allocator, mgr,
           exec, shutdown, errors, elapsed, result, alloc_vars >>

\* ------------------------------------------------------------ CoreAllocator
\* mutant: the Auto cursor starts at the second core
AllocatorNew_CursorOne(cores) ==
    [core_usage |-> << >>, available_cores |-> cores, next_auto_core |-> 1]

\* CoreAllocator::new: empty usage map, the platform's cores, cursor 0
AllocatorNew(cores) ==
    [core_usage |-> << >>, available_cores |-> cores, next_auto_core |-> 0]

AllocOk(a, core) == [alloc |-> a, ok |-> TRUE, core |-> core, err |-> << >>]
AllocErr(a, e) == [alloc |-> a, ok |-> FALSE, core |-> NoneOpt, err |-> e]

\* mutant: a name already recorded under the core is not recorded again
TrackUsage_Dedup(usage, core_id, task_name) ==
    IF core_id \in DOMAIN usage
    THEN IF SeqContains(usage[core_id], task_name) THEN usage
         ELSE [usage EXCEPT ![core_id] = Append(@, task_name)]
    ELSE (core_id :> << task_name >>) @@ usage

\* self.core_usage.entry(core_id).or_default().push(task_name)
TrackUsage(usage, core_id, task_name) ==
    IF core_id \in DOMAIN usage
    THEN [usage EXCEPT ![core_id] = Append(@, task_name)]
    ELSE (core_id :> << task_name >>) @@ usage

\* mutant: the first core of the range whatever the instance index
RangePick_AlwaysFirst(range, instance_index) == range[1]

\* the core chosen for a Range request once the range is known to be non-empty
RangePick(range, instance_index) ==
    IF IsSome(instance_index)
    THEN range[(Unwrap(instance_index) % Len(range)) + 1]
    ELSE range[1]

\* CoreAllocator::allocate past its first check: the match on the affinity,
\* the usage tracking and the answer
AllocateOnCores(a, task_name, affinity, instance_index) ==
    IF affinity.kind = "None" THEN AllocOk(a, NoneOpt)
    ELSE IF affinity.kind = "Fixed" /\ ~SeqContains(a.available_cores, affinity.id)
    THEN AllocErr(a, [error |-> "core not available", id |-> affinity.id,
                      task |-> task_name, available |-> a.available_cores])
    ELSE IF affinity.kind = "Range"
            /\ Len(FilterRange(a.available_cores, affinity.start, affinity.end)) = 0
    THEN AllocErr(a, [error |-> "no cores in range", start |-> affinity.start,
                      end |-> affinity.end, task |-> task_name,
                      available |-> a.available_cores])
    ELSE IF affinity.kind = "Auto" /\ ~IsSome(instance_index)
    THEN AllocErr(a, [error |-> "auto not supported for single instance",
                      task |-> task_name])
    ELSE
        LET core_id ==
                CASE affinity.kind = "Fixed" -> affinity.id
                  [] affinity.kind = "Range" ->
                        RangePick(FilterRange(a.available_cores, affinity.start,
                                              affinity.end), instance_index)
                  [] affinity.kind = "Auto" ->
                        a.available_cores[(a.next_auto_core % Len(a.available_cores)) + 1]
            cursor == IF affinity.kind = "Auto" THEN a.next_auto_core + 1
                      ELSE a.next_auto_core
        IN  AllocOk([a EXCEPT !.core_usage = TrackUsage(@, core_id, task_name),
                              !.next_auto_core = cursor],
                    Some(core_id))

\* mutant: the Auto cursor moves on every call that is not given a core
Allocate_CursorAlwaysMoves(a, task_name, affinity, instance_index) ==
    LET r == IF Len(a.available_cores) = 0 THEN AllocOk(a, NoneOpt)
             ELSE AllocateOnCores(a, task_name, affinity, instance_index)
    IN  IF r.ok /\ IsSome(r.core) THEN r
        ELSE [r EXCEPT !.alloc.next_auto_core = @ + 1]

\* mutant: without available cores a request for a core is an error
Allocate_EmptyFails(a, task_name, affinity, instance_index) ==
    IF Len(a.available_cores) = 0 /\ affinity.kind # "None"
    THEN AllocErr(a, [error |-> "no cores available", task |-> task_name])
    ELSE AllocateOnCores(a, task_name, affinity, instance_index)

\* mutant: an Auto request without instance index is served as instance 0
Allocate_AutoDefaultIndex(a, task_name, affinity, instance_index) ==
    IF Len(a.available_cores) = 0 THEN AllocOk(a, NoneOpt)
    ELSE AllocateOnCores(a, task_name, affinity,
                         IF affinity.kind = "Auto" /\ ~IsSome(instance_index)
                         THEN Some(0) ELSE instance_index)

\* CoreAllocator::allocate: without available cores every request is skipped
Allocate(a, task_name, affinity, instance_index) ==
    IF Len(a.available_cores) = 0 THEN AllocOk(a, NoneOpt)
    ELSE AllocateOnCores(a, task_name, affinity, instance_index)

\* mutant: a core with a single name counts as a conflict
GetConflicts_Singles(a) ==
    {<< c, a.core_usage[c] >> : c \in {k \in DOMAIN a.core_usage : Len(a.core_usage[k]) > 0}}

\* CoreAllocator::get_conflicts: the map is a HashMap, so the order of the
\* entries is not fixed: the answer is modelled as the set of its entries
GetConflicts(a) ==
    {<< c, a.core_usage[c] >> : c \in {k \in DOMAIN a.core_usage : Len(a.core_usage[k]) > 1}}

\* CoreAllocator::validate: Ok, or one message per conflict
Validate(a) ==
    IF GetConflicts(a) = {} THEN [ok |-> TRUE, errors |-> {}]
    ELSE [ok |-> FALSE,
          errors |-> {[core_id |-> cf[1], count |-> Len(cf[2]), tasks |-> cf[2]] :
                         cf \in GetConflicts(a)}]

\* -------------------------------------------------------------- TaskManager
Configs ==
    [shutdown_timeout : 1 .. MaxTimeout, catch_signals : BOOLEAN,
     shutdown_on_error : BOOLEAN, validate_core_allocation : BOOLEAN]

\* ShutdownResult<()> of run(); NotReturned while run() has not returned
NotReturned == [kind |-> "NotReturned"]
OkUnit == [kind |-> "Ok"]
\* ShutdownError::timeout
Timeout(timeout) == [kind |-> "Timeout", timeout |-> timeout]
\* ShutdownError::subsystems_failed
SubsystemsFailed(failures) == [kind |-> "SubsystemsFailed", failures |-> failures]
\* ShutdownError::invalid_core_allocation
InvalidCoreAllocation(message) == [kind |-> "InvalidCoreAllocation", message |-> message]

\* TaskError::new
TaskError(task_name, kind) == [task_name |-> task_name, kind |-> kind]

\* TaskManager::new
Init ==
    /\ config \in Configs
    /\ core_ids \in Platforms
    /\ tasks = << >>
    /\ task_affinities = << >>
    /\ factories = << >>
    /\ allocator = NoneOpt
    /\ mgr = "setup"
    /\ exec = << >>
    /\ shutdown = "none"
    /\ errors = << >>
    /\ elapsed = 0
    /\ result = NotReturned
    /\ last_call = NoneOpt
    /\ assigned = << >>
    /\ auto_cores = << >>

RECURSIVE SumInstances(_)
SumInstances(fs) == IF fs = << >> THEN 0 ELSE Head(fs).instances + SumInstances(Tail(fs))

\* executions the registry will start
NumRegistered == Len(tasks) + SumInstances(factories)

NextTaskName == TaskNames[Len(tasks) + 1]
UsedGroupNames == {factories[i].name : i \in 1 .. Len(factories)}

runtime_vars == << allocator, mgr, exec, shutdown, errors, elapsed, result, alloc_vars >>

\* TaskManager::register
Register(name) ==
    /\ mgr = "setup"
    /\ name = NextTaskName
    /\ NumRegistered < MaxExec
    /\ tasks' = Append(tasks, [name |-> name])
    /\ task_affinities' = Append(task_affinities, AffNone)
    /\ UNCHANGED << config, factories, core_ids, runtime_vars >>

\* TaskManager::register_with_affinity
RegisterWithAffinity(name, affinity) ==
    /\ mgr = "setup"
    /\ name = NextTaskName
    /\ NumRegistered < MaxExec
    /\ tasks' = Append(tasks, [name |-> name])
    /\ task_affinities' = Append(task_affinities, affinity)
    /\ UNCHANGED << config, factories, core_ids, runtime_vars >>

\* TaskManager::register_factory
RegisterFactory(name, instances) ==
    /\ mgr = "setup"
    /\ name \notin UsedGroupNames
    /\ NumRegistered + instances <= MaxExec
    /\ factories' = Append(factories,
                           [name |-> name, instances |-> instances, affinity |-> AffNone])
    /\ UNCHANGED << config, tasks, task_affinities, core_ids, runtime_vars >>

\* TaskManager::register_factory_with_affinity
RegisterFactoryWithAffinity(name, instances, affinity) ==
    /\ mgr = "setup"
    /\ name \notin UsedGroupNames
    /\ NumRegistered + instances <= MaxExec
    /\ factories' = Append(factories,
                           [name |-> name, instances |-> instances, affinity |-> affinity])
    /\ UNCHANGED << config, tasks, task_affinities, core_ids, runtime_vars >>

\* format!("{}-{}", group_name, i)
InstanceName(group_name, i) == group_name \o "-" \o ToString(i)

\* the allocate calls of validate_allocations, in call order:
\* single-instance workers with instance index None ...
SingleRequests(ts, affs) ==
    [i \in 1 .. Len(ts) |->
        [name |-> ts[i].name, affinity |-> affs[i], instance_index |-> NoneOpt]]

\* ... then every instance of every factory with its index
FactoryRequestsOf(f) ==
    [i \in 1 .. f.instances |->
        [name |-> InstanceName(f.name, i - 1), affinity |-> f.affinity,
         instance_index |-> Some(i - 1)]]

RECURSIVE FactoryRequests(_)
FactoryRequests(fs) ==
    IF fs = << >> THEN << >>
    ELSE FactoryRequestsOf(Head(fs)) \o FactoryRequests(Tail(fs))

RECURSIVE AllocateAll(_, _)
AllocateAll(a, reqs) ==
    IF reqs = << >> THEN [ok |-> TRUE, alloc |-> a, err |-> << >>,
                          warnings |-> Validate(a).errors]
    ELSE LET r == Allocate(a, Head(reqs).name, Head(reqs).affinity,
                           Head(reqs).instance_index)
         IN  IF ~r.ok THEN [ok |-> FALSE, alloc |-> r.alloc, err |-> r.err,
                            warnings |-> {}]
             ELSE AllocateAll(r.alloc, Tail(reqs))

\* mutant: the factory instances are not validated
ValidateAllocations_SkipFactories(ts, affs, fs, cores) ==
    AllocateAll(AllocatorNew(cores), SingleRequests(ts, affs))

\* mutant: a conflict reported by allocator.validate() aborts the run
ValidateAllocations_ConflictsFatal(ts, affs, fs, cores) ==
    LET v == AllocateAll(AllocatorNew(cores),
                         SingleRequests(ts, affs) \o FactoryRequests(fs))
    IN  IF v.ok /\ v.warnings # {}
        THEN [v EXCEPT !.ok = FALSE, !.err = [error |-> "conflict"]]
        ELSE v

\* TaskManager::validate_allocations: Err(InvalidCoreAllocation) on the first
\* allocate error; conflicts (allocator.validate()) are only logged
ValidateAllocations(ts, affs, fs, cores) ==
    AllocateAll(AllocatorNew(cores), SingleRequests(ts, affs) \o FactoryRequests(fs))

\* the worker object given to register / register_with_affinity
Registered(name) == [source |-> name, call |-> 0]
\* the worker object returned by the k-th call (from 1) of a factory's producer
Produce(group_name, k) == [source |-> group_name, call |-> k]

\* one execution (subsystem) as started by toplevel_fn: supervise has not run yet
NewExec(name, worker, affinity, instance_index) ==
    [name |-> name, worker |-> worker,
     affinity |-> affinity, instance_index |-> instance_index,
     pc |-> "spawned", token |-> "absent", pinned |-> NoneOpt,
     res |-> "none", out |-> "none", shutdown_res |-> "none",
     run_calls |-> 0, shutdown_calls |-> 0, steps |-> << >>]

\* toplevel_fn, single-instance workers: supervise(.., affinities[i], Some(i))
SingleExecs(ts, affs) ==
    [i \in 1 .. Len(ts) |->
        NewExec(ts[i].name, Registered(ts[i].name), affs[i], Some(i - 1))]

\* mutant: the producer is called once and all instances run that worker
FactoryExecsOf_SharedWorker(f) ==
    [i \in 1 .. f.instances |->
        NewExec(InstanceName(f.name, i - 1), Produce(f.name, 1), f.affinity,
                Some(i - 1))]

\* toplevel_fn, factories: each pass of the loop calls the producer and starts
\* supervise(task_name, task, .., reg.affinity, Some(i))
FactoryExecsOf(f) ==
    [i \in 1 .. f.instances |->
        NewExec(InstanceName(f.name, i - 1), Produce(f.name, i), f.affinity,
                Some(i - 1))]

RECURSIVE FactoryExecs(_)
FactoryExecs(fs) ==
    IF fs = << >> THEN << >> ELSE FactoryExecsOf(Head(fs)) \o FactoryExecs(Tail(fs))

\* TaskManager::run up to the await of handle_shutdown_requests: the optional
\* pre-flight validation, then one subsystem per worker and factory instance
Run ==
    /\ mgr = "setup"
    /\ LET v == ValidateAllocations(tasks, task_affinities, factories, core_ids)
       IN  IF config.validate_core_allocation /\ ~v.ok
           THEN /\ result' = InvalidCoreAllocation(v.err)
                /\ mgr' = "returned"
                /\ allocator' = Some(v.alloc)
                /\ exec' = exec
           ELSE /\ exec' = SingleExecs(tasks, task_affinities) \o FactoryExecs(factories)
                /\ mgr' = "running"
                /\ allocator' = IF config.validate_core_allocation THEN Some(v.alloc)
                                ELSE NoneOpt
                /\ result' = result
    \* run(self) consumes the manager: the registry moves into the subsystems
    /\ tasks' = << >>
    /\ task_affinities' = << >>
    /\ factories' = << >>
    /\ UNCHANGED << config, core_ids, shutdown, errors, elapsed, alloc_vars >>

\* ---------------------------------------------------------------- supervise
\* the core supervise pins the current thread to (None: no pinning happens)
SupervisePin(cores, affinity, instance_index) ==
    IF Len(cores) = 0 THEN NoneOpt
    ELSE CASE affinity.kind = "None" -> NoneOpt
           [] affinity.kind = "Fixed" ->
                IF SeqContains(cores, affinity.id) THEN Some(affinity.id) ELSE NoneOpt
           [] affinity.kind = "Range" ->
                LET range == FilterRange(cores, affinity.start, affinity.end)
                IN  IF Len(range) = 0 THEN NoneOpt
                    ELSE IF IsSome(instance_index)
                    THEN Some(range[(Unwrap(instance_index) % Len(range)) + 1])
                    ELSE Some(range[1])
           [] affinity.kind = "Auto" ->
                IF IsSome(instance_index)
                THEN Some(cores[(Unwrap(instance_index) % Len(cores)) + 1])
                ELSE NoneOpt

\* mutant: the error is swallowed whatever shutdown_on_error says
SuperviseResult_Swallow(shutdown_on_error, res) == "ok"

\* mutant: the error is propagated whatever shutdown_on_error says
SuperviseResult_Propagate(shutdown_on_error, res) == res

\* what supervise returns to the subsystem runner after run and on_shutdown
SuperviseResult(shutdown_on_error, res) ==
    IF ~shutdown_on_error THEN "ok" ELSE res

\* subsys.create_cancellation_token(): a child of the root token, born
\* cancelled when the root already is
CreateCancellationToken(root) == IF root = "none" THEN "live" ELSE "cancelled"

\* mutant: only the first execution's token is cancelled
CancelTokens_FirstOnly(ex) ==
    [i \in 1 .. Len(ex) |->
        IF ex[i].token = "live" /\ i = 1 THEN [ex[i] EXCEPT !.token = "cancelled"]
        ELSE ex[i]]

\* cancelling the root token cancels every child token that exists
CancelTokens(ex) ==
    [i \in 1 .. Len(ex) |->
        IF ex[i].token = "live" THEN [ex[i] EXCEPT !.token = "cancelled"] ELSE ex[i]]

\* an error forwarded to the Toplevel: it is queued and the root token cancelled
ForwardError(ex, e, cause) ==
    /\ errors' = Append(errors, e)
    /\ shutdown' = IF shutdown = "none" THEN cause ELSE shutdown
    /\ exec' = CancelTokens(ex)

Execs == 1 .. Len(exec)
Finished(x) == x.pc \in {"done", "panicked"}
AllFinished == \A i \in Execs : Finished(exec[i])

static_vars == << config, tasks, task_affinities, factories, core_ids, allocator,
                 alloc_vars >>

\* mutant: an execution that cannot pin itself as asked fails without
\* calling task.run
SuperviseStart_PinFailureFatal(i) ==
    /\ mgr = "running"
    /\ exec[i].pc = "spawned"
    /\ LET pin == SupervisePin(core_ids, exec[i].affinity, exec[i].instance_index)
       IN  IF pin = NoneOpt /\ exec[i].affinity.kind \in {"Fixed", "Range"}
           THEN ForwardError([exec EXCEPT ![i].pc = "done", ![i].out = "err",
                                          ![i].token = CreateCancellationToken(shutdown),
                                          ![i].steps = @ \o << "pin" >>],
                             [name |-> exec[i].name, kind |-> "Failed"], "failure")
           ELSE /\ exec' = [exec EXCEPT ![i].pc = "main",
                                        ![i].token = CreateCancellationToken(shutdown),
                                        ![i].pinned = pin,
                                        ![i].run_calls = @ + 1,
                                        ![i].steps = @ \o << "pin", "run" >>]
                /\ UNCHANGED << shutdown, errors >>
    /\ UNCHANGED << static_vars, mgr, elapsed, result >>

\* mutant: supervise calls task.init before task.run
SuperviseStart_CallsInit(i) ==
    /\ mgr = "running"
    /\ exec[i].pc = "spawned"
    /\ exec' = [exec EXCEPT ![i].pc = "main",
                            ![i].token = CreateCancellationToken(shutdown),
                            ![i].pinned = SupervisePin(core_ids, exec[i].affinity,
                                                       exec[i].instance_index),
                            ![i].run_calls = @ + 1,
                            ![i].steps = @ \o << "pin", "init", "run" >>]
    /\ UNCHANGED << static_vars, mgr, shutdown, errors, elapsed, result >>

\* mutant: the thread is pinned only after task.run has been called
SuperviseStart_PinAfterRun(i) ==
    /\ mgr = "running"
    /\ exec[i].pc = "spawned"
    /\ exec' = [exec EXCEPT ![i].pc = "main",
                            ![i].token = CreateCancellationToken(shutdown),
                            ![i].pinned = SupervisePin(core_ids, exec[i].affinity,
                                                       exec[i].instance_index),
                            ![i].run_calls = @ + 1,
                            ![i].steps = @ \o << "run", "pin" >>]
    /\ UNCHANGED << static_vars, mgr, shutdown, errors, elapsed, result >>

\* the subsystem starts: it takes its token, pins itself and calls task.run
\* (no await lies between the pinning and the call); steps logs the order
SuperviseStart(i) ==
    /\ mgr = "running"
    /\ exec[i].pc = "spawned"
    /\ exec' = [exec EXCEPT ![i].pc = "main",
                            ![i].token = CreateCancellationToken(shutdown),
                            ![i].pinned = SupervisePin(core_ids, exec[i].affinity,
                                                       exec[i].instance_index),
                            ![i].run_calls = @ + 1,
                            ![i].steps = @ \o << "pin", "run" >>]
    /\ UNCHANGED << static_vars, mgr, shutdown, errors, elapsed, result >>

\* the worker calls token.cancel() inside run: the token is the child made by
\* create_cancellation_token, so the call cancels that token only; neither
\* the root token nor the tokens of the other subsystems are touched
WorkerCancels(i) ==
    /\ mgr = "running"
    /\ exec[i].pc = "main"
    /\ exec[i].token = "live"
    /\ exec' = [exec EXCEPT ![i].token = "cancelled_by_worker"]
    /\ UNCHANGED << static_vars, mgr, shutdown, errors, elapsed, result >>

\* task.run(token) returns r (on its own or having seen the cancellation);
\* supervise goes on to call task.on_shutdown
RunReturns(i, r) ==
    /\ mgr = "running"
    /\ exec[i].pc = "main"
    /\ exec' = [exec EXCEPT ![i].pc = "cleanup", ![i].res = r,
                            ![i].shutdown_calls = @ + 1,
                            ![i].steps = Append(@, "on_shutdown")]
    /\ UNCHANGED << static_vars, mgr, shutdown, errors, elapsed, result >>

\* task.run(token) panics: supervise unwinds, the runner reports
\* SubsystemError::Panicked and the Toplevel shuts down
RunPanics(i) ==
    /\ mgr = "running"
    /\ exec[i].pc = "main"
    /\ ForwardError([exec EXCEPT ![i].pc = "panicked"],
                    [name |-> exec[i].name, kind |-> "Panicked"], "failure")
    /\ UNCHANGED << static_vars, mgr, elapsed, result >>

\* mutant: an Err of on_shutdown becomes the result of supervise
OnShutdownReturns_Escalates(i, r) ==
    /\ mgr = "running"
    /\ exec[i].pc = "cleanup"
    /\ LET out == IF r = "err" THEN "err"
                  ELSE SuperviseResult(config.shutdown_on_error, exec[i].res)
           ex == [exec EXCEPT ![i].pc = "done", ![i].shutdown_res = r, ![i].out = out]
       IN  IF out = "err"
           THEN ForwardError(ex, [name |-> exec[i].name, kind |-> "Failed"], "failure")
           ELSE exec' = ex /\ UNCHANGED << shutdown, errors >>
    /\ UNCHANGED << static_vars, mgr, elapsed, result >>

\* task.on_shutdown returns r, which supervise discards; supervise returns and
\* an Err is reported as SubsystemError::Failed
OnShutdownReturns(i, r) ==
    /\ mgr = "running"
    /\ exec[i].pc = "cleanup"
    /\ LET out == SuperviseResult(config.shutdown_on_error, exec[i].res)
           ex == [exec EXCEPT ![i].pc = "done", ![i].shutdown_res = r, ![i].out = out]
       IN  IF out = "err"
           THEN ForwardError(ex, [name |-> exec[i].name, kind |-> "Failed"], "failure")
           ELSE exec' = ex /\ UNCHANGED << shutdown, errors >>
    /\ UNCHANGED << static_vars, mgr, elapsed, result >>

\* ----------------------------------------------------------------- Toplevel
\* SIGINT/SIGTERM/Ctrl+C, caught only with catch_signals
Signal ==
    /\ mgr = "running"
    /\ config.catch_signals
    /\ shutdown = "none"
    /\ shutdown' = "signal"
    /\ exec' = CancelTokens(exec)
    /\ UNCHANGED << static_vars, mgr, errors, elapsed, result >>

\* mutant: the timer runs from the start of the run
Tick_FromStart ==
    /\ mgr = "running"
    /\ elapsed < config.shutdown_timeout
    /\ elapsed' = elapsed + 1
    /\ UNCHANGED << static_vars, mgr, exec, shutdown, errors, result >>

\* one tick of the shutdown timer, which runs from the shutdown request
Tick ==
    /\ mgr = "running"
    /\ shutdown # "none"
    /\ elapsed < config.shutdown_timeout
    /\ elapsed' = elapsed + 1
    /\ UNCHANGED << static_vars, mgr, exec, shutdown, errors, result >>

\* the map_err of run(): every reported failure becomes a TaskError of kind
\* Execution under the subsystem's name
MapFailures(fs) == [i \in 1 .. Len(fs) |-> TaskError(fs[i].name, "Execution")]

\* mutant: the supervisor joins the subsystems only once shutdown is requested
JoinAll_AfterShutdown ==
    /\ mgr = "running"
    /\ shutdown # "none"
    /\ AllFinished
    /\ result' = IF errors = << >> THEN OkUnit ELSE SubsystemsFailed(MapFailures(errors))
    /\ mgr' = "returned"
    /\ UNCHANGED << static_vars, exec, shutdown, errors, elapsed >>

\* handle_shutdown_requests: all subsystems have finished
JoinAll ==
    /\ mgr = "running"
    /\ AllFinished
    /\ result' = IF errors = << >> THEN OkUnit ELSE SubsystemsFailed(MapFailures(errors))
    /\ mgr' = "returned"
    /\ UNCHANGED << static_vars, exec, shutdown, errors, elapsed >>

\* mutant: failures already reported win over the timeout
ShutdownTimeout_FailuresFirst ==
    /\ mgr = "running"
    /\ shutdown # "none"
    /\ elapsed = config.shutdown_timeout
    /\ ~AllFinished
    /\ result' = IF errors = << >> THEN Timeout(config.shutdown_timeout)
                 ELSE SubsystemsFailed(MapFailures(errors))
    /\ mgr' = "returned"
    /\ UNCHANGED << static_vars, exec, shutdown, errors, elapsed >>

\* mutant: the error carries the library default of 30 ticks, not the configured value
ShutdownTimeout_DefaultValue ==
    /\ mgr = "running"
    /\ shutdown # "none"
    /\ elapsed = config.shutdown_timeout
    /\ ~AllFinished
    /\ result' = Timeout(30)
    /\ mgr' = "returned"
    /\ UNCHANGED << static_vars, exec, shutdown, errors, elapsed >>

\* handle_shutdown_requests: the timeout ends the wait for the subsystems
ShutdownTimeout ==
    /\ mgr = "running"
    /\ shutdown # "none"
    /\ elapsed = config.shutdown_timeout
    /\ ~AllFinished
    /\ result' = Timeout(config.shutdown_timeout)
    /\ mgr' = "returned"
    /\ UNCHANGED << static_vars, exec, shutdown, errors, elapsed >>

Next ==
    \/ \E n \in {NextTaskName} : Register(n)
    \/ \E n \in {NextTaskName}, a \in Affinities : RegisterWithAffinity(n, a)
    \/ \E g \in GroupNames, k \in 0 .. MaxExec : RegisterFactory(g, k)
    \/ \E g \in GroupNames, k \in 0 .. MaxExec, a \in Affinities :
            RegisterFactoryWithAffinity(g, k, a)
    \/ Run
    \/ \E i \in Execs : SuperviseStart(i)
    \/ \E i \in Execs : WorkerCancels(i)
    \/ \E i \in Execs, r \in {"ok", "err"} : RunReturns(i, r)
    \/ \E i \in Execs : RunPanics(i)
    \/ \E i \in Execs, r \in {"ok", "err"} : OnShutdownReturns(i, r)
    \/ Signal
    \/ Tick
    \/ JoinAll
    \/ ShutdownTimeout

Spec == Init /\ [][Next]_vars

\* the supervisor task and the tokio timer are always scheduled: the timer
\* ticks, and handle_shutdown_requests wakes up on the join and on the timeout
FairSpec ==
    Spec /\ WF_vars(Tick) /\ WF_vars(JoinAll) /\ WF_vars(ShutdownTimeout)

\* cooperating workers on top of FairSpec: every subsystem task is scheduled,
\* every main routine that is running returns at some point (on its own or
\* having seen its token cancelled) and every on_shutdown returns
CoopSpec ==
    /\ FairSpec
    /\ \A i \in 1 .. MaxExec :
          /\ WF_vars(i \in Execs /\ SuperviseStart(i))
          /\ WF_vars(i \in Execs /\ \E r \in {"ok", "err"} : RunReturns(i, r))
          /\ WF_vars(i \in Execs /\ \E r \in {"ok", "err"} : OnShutdownReturns(i, r))

\* ------------------------------------------------- the allocator on its own
\* a CoreAllocator driven directly through allocate, on any set of cores
AllocNames == {"a", "b"}

\* core_affinity::get_core_ids(), ascending: no core ids exposed, all of the
\* cores 0..AllocCores-1, or a process confined (cpuset) to the odd ones
AllocPlatforms ==
    {CoreIdsOf(0), CoreIdsOf(AllocCores),
     SelectSeq(CoreIdsOf(AllocCores), LAMBDA c : c % 2 = 1)}

\* the requests tried: every Fixed and every Range over 0..AllocCores-1, and
\* core AllocCores which is never available
AllocAffinities ==
    {AffNone, Auto} \cup {Fixed(id) : id \in 0 .. AllocCores}
        \cup {Range(p[1], p[2]) :
                 p \in {q \in (0 .. AllocCores - 1) \X (0 .. AllocCores - 1) : q[1] <= q[2]}}
        \cup {Range(AllocCores, AllocCores), Range(1, 0)}

AllocIndices == {NoneOpt} \cup {Some(i) : i \in 0 .. AllocCores - 1}

\* CoreAllocator::new() in a process that no TaskManager has touched
AllocInit ==
    /\ config = CHOOSE c \in Configs : TRUE
    /\ core_ids \in AllocPlatforms
    /\ allocator = Some(AllocatorNew(core_ids))
    /\ tasks = << >>
    /\ task_affinities = << >>
    /\ factories = << >>
    /\ mgr = "setup"
    /\ exec = << >>
    /\ shutdown = "none"
    /\ errors = << >>
    /\ elapsed = 0
    /\ result = NotReturned
    /\ last_call = NoneOpt
    /\ assigned = << >>
    /\ auto_cores = << >>

\* one call allocator.allocate(task_name, &affinity, instance_index) and what
\* the caller sees of it
AllocateCall(task_name, affinity, instance_index) ==
    /\ last_call = NoneOpt
    /\ Len(assigned) < MaxCalls
    /\ LET r == Allocate(Unwrap(allocator), task_name, affinity, instance_index)
           answered == r.ok /\ IsSome(r.core)
       IN  /\ allocator' = Some(r.alloc)
           /\ last_call' = Some([task_name |-> task_name, affinity |-> affinity,
                                 instance_index |-> instance_index,
                                 before |-> Unwrap(allocator),
                                 ok |-> r.ok, core |-> r.core, err |-> r.err])
           /\ assigned' = IF answered
                           THEN Append(assigned, << Unwrap(r.core), task_name >>)
                           ELSE assigned
           /\ auto_cores' = IF answered /\ affinity = Auto
                             THEN Append(auto_cores, Unwrap(r.core))
                             ELSE auto_cores
    /\ UNCHANGED << config, tasks, task_affinities, factories, core_ids, mgr, exec,
                    shutdown, errors, elapsed, result >>

\* the caller has taken the answer (the ? of validate_allocations, a test's
\* assert) and may call again
AnswerTaken ==
    /\ last_call # NoneOpt
    /\ last_call' = NoneOpt
    /\ UNCHANGED << config, tasks, task_affinities, factories, core_ids, allocator,
                    mgr, exec, shutdown, errors, elapsed, result, assigned, auto_cores >>

AllocNext ==
    \/ \E n \in AllocNames, a \in AllocAffinities, i \in AllocIndices :
            AllocateCall(n, a, i)
    \/ AnswerTaken

AllocSpec == AllocInit /\ [][AllocNext]_vars

\* ------------------------------------------------------------------ claims
Returned == mgr = "returned"
\* run() returned after having started the workers
ReturnedAfterStart == Returned /\ result.kind # "InvalidCoreAllocation"
\* the step in which run() is called
RunStep == mgr = "setup" /\ mgr' # "setup"

Elements(sq) == {sq[i] : i \in 1 .. Len(sq)}

\* token.is_cancelled(): through the root token or by the worker's own call
IsCancelled(token) == token \in {"cancelled", "cancelled_by_worker"}

\* section 4.1 of the design: a request that cannot be satisfied on the cores
Unsatisfiable(affinity, cores) ==
    \/ affinity.kind = "Fixed" /\ affinity.id \notin Elements(cores)
    \/ affinity.kind = "Range"
        /\ ~\E c \in Elements(cores) : affinity.start <= c /\ c <= affinity.end

\* some worker or factory instance of the registry has a hard allocation error
HardAllocationError ==
    /\ core_ids # << >>
    /\ \/ \E i \in 1 .. Len(tasks) :
            Unsatisfiable(task_affinities[i], core_ids) \/ task_affinities[i].kind = "Auto"
       \/ \E j \in 1 .. Len(factories) :
            factories[j].instances > 0 /\ Unsatisfiable(factories[j].affinity, core_ids)

NoWorkerCalled == \A i \in Execs : exec[i].run_calls = 0 /\ exec[i].shutdown_calls = 0

\* C1: with validate_core_allocation, a registry with a hard allocation error
\* makes run() return InvalidCoreAllocation with no execution created, and no
\* worker's run or on_shutdown is invoked in a run that ended that way.
C1_HardErrorAborts ==
    /\ [](result.kind = "InvalidCoreAllocation" => Returned /\ exec = << >> /\ NoWorkerCalled)
    /\ [][(RunStep /\ config.validate_core_allocation /\ HardAllocationError)
            => (result'.kind = "InvalidCoreAllocation" /\ exec' = << >>)]_vars

C1_Witness ==
    /\ result.kind = "InvalidCoreAllocation"
    /\ result.message.error = "no cores in range"
    /\ result.message.task = "g-0"

\* C2: when run() has returned, every execution whose run was invoked has had
\* on_shutdown invoked exactly once, and on_shutdown is never invoked before
\* run has returned.
C2_CleanupExactlyOnce ==
    /\ ReturnedAfterStart =>
          \A i \in Execs : exec[i].run_calls = 1 => exec[i].shutdown_calls = 1
    /\ \A i \in Execs : exec[i].shutdown_calls > 0 => exec[i].res # "none"

FailureNames == {result.failures[k].task_name : k \in 1 .. Len(result.failures)}

\* C3: with shutdown_on_error, once an execution has returned an error from
\* run (and finished its cleanup), shutdown is requested, no token is left
\* uncancelled, every execution that returned from run has had on_shutdown
\* invoked, and a run() that returns without timing out returns
\* SubsystemsFailed naming that execution.
C3_ErrorShutsDownAll ==
    config.shutdown_on_error =>
        \A i \in Execs : (exec[i].pc = "done" /\ exec[i].res = "err") =>
            /\ shutdown # "none"
            /\ \A j \in Execs :
                  /\ exec[j].token # "live"
                  /\ exec[j].pc # "spawned" => IsCancelled(exec[j].token)
                  /\ exec[j].res # "none" => exec[j].shutdown_calls = 1
            /\ (Returned /\ result.kind # "Timeout") =>
                  /\ result.kind = "SubsystemsFailed"
                  /\ exec[i].name \in FailureNames

C3_Witness ==
    /\ config.shutdown_on_error
    /\ result.kind = "SubsystemsFailed"
    /\ Len(exec) = 2
    /\ exec[1].res = "err" /\ exec[2].res = "ok"
    /\ exec[2].token = "cancelled" /\ exec[2].shutdown_calls = 1
    /\ FailureNames = {exec[1].name}

ErrorNames == {errors[k].name : k \in 1 .. Len(errors)}

\* C4: without shutdown_on_error, an execution whose run returned an error
\* reports success and is not among the forwarded errors; unless a signal came
\* or a worker panicked, no shutdown is requested and no token is cancelled;
\* and when all executions have finished without a panic run() returns Ok.
C4_ErrorSwallowed ==
    ~config.shutdown_on_error =>
        /\ \A i \in Execs : (exec[i].pc = "done" /\ exec[i].res = "err") =>
              exec[i].out = "ok" /\ exec[i].name \notin ErrorNames
        /\ (shutdown # "signal" /\ \A i \in Execs : exec[i].pc # "panicked") =>
              shutdown = "none" /\ \A j \in Execs : exec[j].token # "cancelled"
        /\ (ReturnedAfterStart /\ \A i \in Execs : exec[i].pc = "done") =>
              result = OkUnit

C4_Witness ==
    /\ ~config.shutdown_on_error
    /\ result = OkUnit
    /\ Len(exec) = 2
    /\ exec[1].res = "err" /\ exec[2].res = "ok"
    /\ shutdown = "none"

\* run() has returned although some started main routine had not: shutdown had
\* been requested, the whole timeout elapsed, the result is that Err(Timeout)
TimeoutIfStuck ==
    (ReturnedAfterStart /\ \E i \in Execs : exec[i].pc = "main") =>
        /\ shutdown # "none"
        /\ elapsed = config.shutdown_timeout
        /\ result = Timeout(config.shutdown_timeout)

\* C5: once shutdown is requested run() returns, whatever the workers do; and
\* when it returns with some started main routine not returned, the whole
\* shutdown_timeout has elapsed since the request and the result is
\* Err(Timeout) carrying the configured shutdown_timeout.
C5_TimeoutOnStuckWorker ==
    /\ []TimeoutIfStuck
    /\ (shutdown # "none") ~> Returned

C5_Witness ==
    /\ Returned
    /\ result.kind = "Timeout"
    /\ \E i \in Execs : exec[i].pc = "main" /\ exec[i].token = "cancelled"

\* C6: a worker that panicked in run is reported by run() as a TaskError of
\* kind Panic under its name.
C6_PanicReportedAsPanic ==
    (Returned /\ result.kind = "SubsystemsFailed") =>
        \A i \in Execs : exec[i].pc = "panicked" =>
            \E k \in 1 .. Len(result.failures) :
                result.failures[k] = TaskError(exec[i].name, "Panic")

\* an execution whose failure was propagated to the supervisor
PropagatedFailure(i) ==
    exec[i].pc = "panicked" \/ (exec[i].pc = "done" /\ exec[i].out = "err")

\* C7: after the workers were started run() returns Ok, SubsystemsFailed or
\* Timeout: Ok iff all executions finished and none propagated a failure,
\* SubsystemsFailed iff all finished and some did, Timeout iff the timeout
\* elapsed with an execution unfinished (whatever failures were reported).
C7_TerminalResult ==
    ReturnedAfterStart =>
        /\ result.kind \in {"Ok", "SubsystemsFailed", "Timeout"}
        /\ result.kind = "Ok" <=>
              (AllFinished /\ \A i \in Execs : ~PropagatedFailure(i))
        /\ result.kind = "SubsystemsFailed" <=>
              (AllFinished /\ \E i \in Execs : PropagatedFailure(i))
        /\ result.kind = "Timeout" <=>
              (~AllFinished /\ shutdown # "none" /\ elapsed = config.shutdown_timeout)

C7_Witness ==
    /\ result.kind = "Timeout"
    /\ \E i \in Execs : PropagatedFailure(i)

\* C8: an execution whose on_shutdown returned an error reports what its run
\* returned (an error only with shutdown_on_error): with run Ok it reports
\* success, is not among the forwarded errors nor in run()'s failures, and
\* while nothing but cleanup hooks failed no shutdown is requested.
C8_CleanupErrorIgnored ==
    /\ \A i \in Execs : (exec[i].pc = "done" /\ exec[i].shutdown_res = "err") =>
          /\ exec[i].out = "err" <=> (config.shutdown_on_error /\ exec[i].res = "err")
          /\ exec[i].res = "ok" =>
                /\ exec[i].name \notin ErrorNames
                /\ result.kind = "SubsystemsFailed" => exec[i].name \notin FailureNames
    /\ (shutdown # "signal" /\ \A i \in Execs : exec[i].res # "err" /\ exec[i].pc # "panicked")
          => shutdown = "none" /\ \A j \in Execs : exec[j].token # "cancelled"

C8_Witness ==
    /\ config.shutdown_on_error
    /\ result = OkUnit
    /\ Len(exec) = 2
    /\ exec[1].shutdown_res = "err" /\ exec[2].shutdown_res = "ok"

\* the names of the requests of the registry that ask for Fixed(c), in order
FixedOn(c) ==
    LET reqs == SingleRequests(tasks, task_affinities) \o FactoryRequests(factories)
        fixed == SelectSeq(reqs, LAMBDA r : r.affinity = Fixed(c))
    IN  [k \in 1 .. Len(fixed) |-> fixed[k].name]

\* C9: a validated registry without hard allocation error starts one execution
\* per worker whatever its conflicts; a core asked for with Fixed by two or
\* more workers is reported by get_conflicts with their names in registration
\* order; and when run() has joined all executions of a run with conflicts,
\* every worker's run has been invoked.
C9_ConflictsAdvisory ==
    /\ [][(RunStep /\ config.validate_core_allocation /\ ~HardAllocationError) =>
            /\ mgr' = "running"
            /\ Len(exec') = NumRegistered
            /\ core_ids # << >> =>
                  \A c \in Elements(core_ids) : Len(FixedOn(c)) >= 2 =>
                      \E cf \in GetConflicts(Unwrap(allocator')) :
                          /\ cf[1] = c
                          /\ SelectSeq(cf[2], LAMBDA n : n \in Elements(FixedOn(c)))
                                = FixedOn(c)]_vars
    /\ []((IsSome(allocator) /\ GetConflicts(Unwrap(allocator)) # {}
             /\ Returned /\ result.kind \in {"Ok", "SubsystemsFailed"})
            => \A i \in Execs : exec[i].run_calls = 1)

C9_Witness ==
    /\ IsSome(allocator)
    /\ GetConflicts(Unwrap(allocator)) = {<< 0, << "a", "b" >> >>}
    /\ result = OkUnit
    /\ Len(exec) = 2
    /\ \A i \in Execs : exec[i].run_calls = 1 /\ exec[i].affinity = Fixed(0)

\* C10: once shutdown is requested no execution holds an uncancelled token
\* (a token created later is born cancelled), the supervisor waits no longer
\* than shutdown_timeout, and it returns before the timeout has elapsed only
\* when every execution has finished its main routine and cleanup hook.
C10_CancelAllThenWait ==
    /\ \A i \in Execs : exec[i].pc # "spawned" => exec[i].token # "absent"
    /\ shutdown # "none" =>
          /\ \A i \in Execs : exec[i].token # "live"
          /\ elapsed <= config.shutdown_timeout
          /\ Returned => (AllFinished \/ (result.kind = "Timeout"
                                          /\ elapsed = config.shutdown_timeout))

C10_Witness ==
    /\ shutdown = "signal"
    /\ result.kind = "Ok"
    /\ Len(exec) = 2
    /\ \A i \in Execs : exec[i].token = "cancelled" /\ exec[i].pc = "done"
    /\ elapsed = config.shutdown_timeout

\* C11: a worker that calls cancel() on the token it received in run triggers
\* shutdown: from that call on shutdown is requested and no other execution
\* holds an uncancelled token.
C11_WorkerCancelTriggersShutdown ==
    \A i \in Execs : exec[i].token = "cancelled_by_worker" =>
        /\ shutdown # "none"
        /\ \A j \in Execs \ {i} : exec[j].token # "live"

\* the steps of supervise, in the order of its code
SuperviseOrder == << "pin", "run", "on_shutdown" >>

\* C12: within each execution the steps happen in the order pin affinity, run
\* the main routine, run on_shutdown: the steps taken so far are a prefix of
\* that order, on_shutdown is called only after run has returned and is the
\* last step, and each step is taken at most once.
C12_StepOrder ==
    \A i \in Execs :
        /\ Len(exec[i].steps) <= Len(SuperviseOrder)
        /\ exec[i].steps = SubSeq(SuperviseOrder, 1, Len(exec[i].steps))
        /\ exec[i].run_calls = Cardinality({k \in DOMAIN exec[i].steps :
                                               exec[i].steps[k] = "run"})
        /\ exec[i].shutdown_calls = Cardinality({k \in DOMAIN exec[i].steps :
                                                    exec[i].steps[k] = "on_shutdown"})
        /\ exec[i].shutdown_calls > 0 =>
              exec[i].res # "none" /\ exec[i].steps[Len(exec[i].steps)] = "on_shutdown"
        /\ exec[i].pc = "spawned" <=> exec[i].steps = << >>

\* the second execution went through all its steps before the first one began
C12_Witness ==
    /\ Len(exec) = 2
    /\ exec[1].steps = << >>
    /\ exec[2].steps = SuperviseOrder
    /\ exec[2].pc = "done"
    /\ IsSome(exec[2].pinned)

\* ---------------------------------------------------- claims on the allocator
Called == IsSome(last_call)
Last == Unwrap(last_call)
\* the available-core set of the allocator
Available == Elements(Unwrap(allocator).available_cores)
\* the names recorded under core c
UsageOf(a, c) == IF c \in DOMAIN a.core_usage THEN a.core_usage[c] ELSE << >>

\* C13: on a non-empty available set, allocate(name, Fixed(id), any index)
\* fails with an error carrying name and id when id is not available, and
\* otherwise answers id and appends name to the names recorded under id.
C13_FixedAllocation ==
    (Called /\ Last.affinity.kind = "Fixed" /\ Available # {}) =>
        IF Last.affinity.id \in Available
        THEN /\ Last.ok
             /\ Last.core = Some(Last.affinity.id)
             /\ UsageOf(Unwrap(allocator), Last.affinity.id)
                    = Append(UsageOf(Last.before, Last.affinity.id), Last.task_name)
        ELSE /\ ~Last.ok
             /\ Last.err.task = Last.task_name
             /\ Last.err.id = Last.affinity.id

\* core 2 is refused to "b" on cores 1 and 3 after core 1 was given to "a"
C13_Witness ==
    /\ Called
    /\ core_ids = << 1, 3 >>
    /\ Last.affinity = Fixed(2) /\ Last.task_name = "b"
    /\ IsSome(Last.instance_index)
    /\ ~Last.ok /\ Last.err.id = 2 /\ Last.err.task = "b"
    /\ assigned = << << 1, "a" >> >>
    /\ UsageOf(Unwrap(allocator), 1) = << "a" >>

\* positions of the available cores that lie within [start, end]
InRange(cores, start, end) ==
    {p \in 1 .. Len(cores) : start <= cores[p] /\ cores[p] <= end}
\* the k-th (from 0) available core within [start, end], in available order
NthInRange(cores, start, end, k) ==
    LET P == InRange(cores, start, end)
    IN  cores[CHOOSE p \in P : Cardinality({q \in P : q < p}) = k]

\* C14: on a non-empty available set, with S the available cores within
\* [start, end] in available order, allocate(name, Range(start, end), idx)
\* fails with an error carrying name, start and end when S is empty, and
\* otherwise answers S[idx mod |S|], or S[0] without idx; Range(1,2) over
\* cores 0..3 answers 1, 2, 1, 2 for the instances 0..3.
C14_RangeAllocation ==
    (Called /\ Last.affinity.kind = "Range" /\ Available # {}) =>
        LET cores == Last.before.available_cores
            start == Last.affinity.start
            end == Last.affinity.end
            size == Cardinality(InRange(cores, start, end))
            idx == Last.instance_index
        IN  /\ size = 0 =>
                  /\ ~Last.ok
                  /\ Last.err.task = Last.task_name
                  /\ Last.err.start = start /\ Last.err.end = end
            /\ size > 0 =>
                  /\ Last.ok
                  /\ Last.core = Some(NthInRange(cores, start, end,
                                      IF IsSome(idx) THEN Unwrap(idx) % size ELSE 0))
            /\ (cores = << 0, 1, 2, 3 >> /\ Last.affinity = Range(1, 2)
                    /\ IsSome(idx) /\ Unwrap(idx) <= 3) =>
                  Last.core = Some(<< 1, 2, 1, 2 >>[Unwrap(idx) + 1])

\* instance 3 of a factory asking for Range(1,2) on cores 0..3 gets core 2
C14_Witness ==
    /\ Called
    /\ core_ids = << 0, 1, 2, 3 >>
    /\ Last.affinity = Range(1, 2)
    /\ Last.instance_index = Some(3)
    /\ Last.core = Some(2)

\* C15: allocate(name, Auto, None) always fails, for every available-core
\* set, the empty one included, and every prior allocator state.
C15_AutoWithoutIndexFails ==
    (Called /\ Last.affinity = Auto /\ ~IsSome(Last.instance_index)) => ~Last.ok

\* C15, amended: allocate(name, Auto, None) fails, with an error naming the
\* worker, for every non-empty available-core set and every prior allocator
\* state; on the empty set it answers Ok(None) like every other request.
C15_AutoWithoutIndexFailsOnCores ==
    (Called /\ Last.affinity = Auto /\ ~IsSome(Last.instance_index)) =>
        IF Available # {}
        THEN /\ ~Last.ok
             /\ Last.err.error = "auto not supported for single instance"
             /\ Last.err.task = Last.task_name
        ELSE Last.ok /\ Last.core = NoneOpt

\* refused on cores 1 and 3 after two allocations had been made
C15_Witness ==
    /\ Called
    /\ core_ids = << 1, 3 >>
    /\ Last.affinity = Auto /\ ~IsSome(Last.instance_index)
    /\ ~Last.ok
    /\ Len(assigned) = MaxCalls - 1 /\ Last.before.next_auto_core = 1

\* C16: on a fresh allocator with n > 0 available cores the k-th successful
\* Auto allocation (k from 0, over all names and instance indices, whatever
\* other or failing calls come in between) answers available[k mod n]; so n
\* Auto calls in a row get each core once, in order, and the next one wraps.
C16_AutoRoundRobin ==
    Available # {} =>
        /\ \A k \in 1 .. Len(auto_cores) :
              auto_cores[k] = core_ids[((k - 1) % Len(core_ids)) + 1]
        /\ (Called /\ Last.affinity = Auto /\ Last.ok) =>
              /\ IsSome(Last.instance_index)
              /\ auto_cores # << >>
              /\ Last.core = Some(auto_cores[Len(auto_cores)])

\* three Auto calls on cores 1 and 3: the third wraps to core 1 although it
\* carries instance index 1
C16_Witness ==
    /\ Called
    /\ core_ids = << 1, 3 >>
    /\ auto_cores = << 1, 3, 1 >>
    /\ assigned = << << 1, "a" >>, << 3, "b" >>, << 1, "b" >> >>
    /\ Last.instance_index = Some(1)
    /\ Last.core = Some(1)

\* C17: with an empty available-core set every allocate call answers Ok(None),
\* for every affinity and instance index, never an error, and leaves the
\* usage mapping empty and the Auto cursor unchanged.
C17_EmptySetSkips ==
    (Called /\ Available = {}) =>
        /\ Last.ok /\ Last.core = NoneOpt /\ Last.err = << >>
        /\ Unwrap(allocator) = Last.before
        /\ DOMAIN Unwrap(allocator).core_usage = {}
        /\ Unwrap(allocator).next_auto_core = 0
        /\ assigned = << >>

\* an Auto request on a platform without core ids
C17_Witness ==
    /\ Called
    /\ core_ids = << >>
    /\ Last.affinity = Auto /\ IsSome(Last.instance_index)
    /\ Last.ok /\ Last.core = NoneOpt

\* the names allocate has answered core c for, in call order
NamesOn(c) ==
    LET on == SelectSeq(assigned, LAMBDA p : p[1] = c)
    IN  [k \in 1 .. Len(on) |-> on[k][2]]
\* the cores allocate has answered twice or more
SharedCores == {c \in {assigned[k][1] : k \in 1 .. Len(assigned)} : Len(NamesOn(c)) >= 2}

\* C18: after any sequence of allocate calls get_conflicts() is exactly the
\* cores with two or more assigned names, each once and with all its names in
\* assignment order; validate() is Err iff there is such a core, and then
\* carries one message per such core.
C18_ConflictsExact ==
    LET conflicts == GetConflicts(Unwrap(allocator))
        v == Validate(Unwrap(allocator))
    IN  /\ {cf[1] : cf \in conflicts} = SharedCores
        /\ Cardinality(conflicts) = Cardinality(SharedCores)
        /\ \A cf \in conflicts : cf[2] = NamesOn(cf[1])
        /\ v.ok <=> SharedCores = {}
        /\ v.ok => v.errors = {}
        /\ ~v.ok =>
              /\ Cardinality(v.errors) = Cardinality(SharedCores)
              /\ \A c \in SharedCores : \E e \in v.errors :
                    e.core_id = c /\ e.tasks = NamesOn(c) /\ e.count = Len(NamesOn(c))

\* cores 1 and 3 are each shared by two workers, the calls interleaved
C18_Witness ==
    /\ core_ids = << 1, 3 >>
    /\ assigned = << << 1, "b" >>, << 3, "a" >>, << 1, "a" >>, << 3, "a" >> >>
    /\ GetConflicts(Unwrap(allocator)) =
            {<< 1, << "b", "a" >> >>, << 3, << "a", "a" >> >>}
    /\ ~Validate(Unwrap(allocator)).ok
    /\ Cardinality(Validate(Unwrap(allocator)).errors) = 2

\* C19: in every allocator state every key of the usage mapping is an
\* available core, and every core allocate has ever answered is one.
C19_UsageWithinAvailable ==
    /\ DOMAIN Unwrap(allocator).core_usage \subseteq Available
    /\ \A k \in 1 .. Len(assigned) : assigned[k][1] \in Available
    /\ (Called /\ IsSome(Last.core)) => Unwrap(Last.core) \in Available

\* a range reaching over the unavailable cores 0 and 2 is answered with core 1
C19_Witness ==
    /\ Called
    /\ core_ids = << 1, 3 >>
    /\ Last.affinity = Range(0, 2)
    /\ Last.core = Some(1)
    /\ DOMAIN Unwrap(allocator).core_usage = {1, 3}

\* ------------------------------------------------------ claims on factories
\* the executions of exec' that run a worker made by the producer of group g
ProducedBy(g) ==
    {k \in 1 .. Len(exec') : exec'[k].worker.source = g /\ exec'[k].worker.call > 0}

\* C20: when run() starts the workers, a factory with group name g and count N
\* gives exactly N executions, named g-0 .. g-(N-1), the one named g-i with
\* instance index i and the factory's affinity, each running the worker of a
\* producer call of its own: the calls are N in all, none when N = 0.
C20_FactoryInstances ==
    [][(RunStep /\ mgr' = "running") =>
        /\ Len(exec') = Len(tasks) + SumInstances(factories)
        /\ \A j \in 1 .. Len(factories) :
              LET f == factories[j]
              IN  /\ Cardinality(ProducedBy(f.name)) = f.instances
                  /\ {exec'[k].name : k \in ProducedBy(f.name)}
                        = {InstanceName(f.name, i) : i \in 0 .. f.instances - 1}
                  /\ {exec'[k].worker.call : k \in ProducedBy(f.name)}
                        = 1 .. f.instances
                  /\ \A k \in ProducedBy(f.name) :
                        /\ exec'[k].affinity = f.affinity
                        /\ IsSome(exec'[k].instance_index)
                        /\ exec'[k].name
                              = InstanceName(f.name, Unwrap(exec'[k].instance_index))
                        \* the pre-flight pass asks for the same name, index
                        \* and affinity
                        /\ [name |-> exec'[k].name, affinity |-> exec'[k].affinity,
                            instance_index |-> exec'[k].instance_index]
                              \in Elements(FactoryRequestsOf(f))]_vars

\* the two instances of group "g", both running, each with its own worker
C20_Witness ==
    /\ Len(exec) = 2
    /\ exec[1].name = "g-0" /\ exec[2].name = "g-1"
    /\ exec[1].worker = Produce("g", 1) /\ exec[2].worker = Produce("g", 2)
    /\ exec[1].instance_index = Some(0) /\ exec[2].instance_index = Some(1)
    /\ exec[1].affinity = Range(0, MaxCores - 1) /\ exec[2].affinity = exec[1].affinity
    /\ exec[1].pc = "main" /\ exec[2].pc = "main"

\* ------------------------------------------------- claims on the supervisor
\* the methods of its worker execution i has called, in call order
WorkerCalls(i) == SelectSeq(exec[i].steps, LAMBDA st : st # "pin")

\* C21: the orchestrator never invokes init, ready or metrics: the methods an
\* execution calls on its worker are run, exactly once from its start on, and
\* on_shutdown, at most once.
C21_HooksNeverInvoked ==
    \A i \in Execs :
        /\ \A k \in DOMAIN WorkerCalls(i) :
              /\ WorkerCalls(i)[k] \in {"run", "on_shutdown"}
              /\ WorkerCalls(i)[k] \notin {"init", "ready", "metrics"}
        /\ Cardinality({k \in DOMAIN WorkerCalls(i) : WorkerCalls(i)[k] = "run"})
              = (IF exec[i].pc = "spawned" THEN 0 ELSE 1)
        /\ Cardinality({k \in DOMAIN WorkerCalls(i) : WorkerCalls(i)[k] = "on_shutdown"})
              <= 1
        /\ exec[i].run_calls + exec[i].shutdown_calls = Len(WorkerCalls(i))

\* run() returned Ok after a registered worker and a factory instance each
\* had run and on_shutdown called, and nothing else
C21_Witness ==
    /\ result = OkUnit
    /\ Len(exec) = 2
    /\ exec[1].worker = Registered("a") /\ exec[2].worker = Produce("g", 1)
    /\ \A i \in Execs : WorkerCalls(i) = << "run", "on_shutdown" >>

\* execution i runs a worker given to register / register_with_affinity
SingleInstance(i) == exec[i].worker.call = 0
\* the cores of the platform within the Range affinity of execution i
RangeOf(i) == FilterRange(core_ids, exec[i].affinity.start, exec[i].affinity.end)

\* C22: a single-instance worker with affinity Range(start, end) is pinned by
\* its execution to the first available core of the range, whatever its
\* position in the registration order.
C22_SingleRangeFirstCore ==
    \A i \in Execs :
        (SingleInstance(i) /\ exec[i].affinity.kind = "Range"
            /\ exec[i].pc # "spawned" /\ RangeOf(i) # << >>)
        => exec[i].pinned = Some(RangeOf(i)[1])

\* C23: a single-instance worker registered with affinity Auto is never
\* pinned to a core by its execution, with or without validate_core_allocation.
C23_SingleAutoNeverPinned ==
    \A i \in Execs :
        (SingleInstance(i) /\ exec[i].affinity = Auto) => exec[i].pinned = NoneOpt

\* C24: without validate_core_allocation run() never returns
\* InvalidCoreAllocation, and an execution whose Fixed core or Range is not
\* available is not pinned and still calls run, and on_shutdown once run has
\* returned.
C24_PinningFailureNonFatal ==
    ~config.validate_core_allocation =>
        /\ result.kind # "InvalidCoreAllocation"
        /\ \A i \in Execs : Unsatisfiable(exec[i].affinity, core_ids) =>
              /\ exec[i].pinned = NoneOpt
              /\ exec[i].pc # "spawned" => exec[i].run_calls = 1
              /\ exec[i].res # "none" =>
                    exec[i].shutdown_calls = 1 /\ WorkerCalls(i) = << "run", "on_shutdown" >>

\* on cores 0 and 1 a worker asking for the missing core and one asking for a
\* range without cores have run to the end, and run() returned Ok
C24_Witness ==
    /\ ~config.validate_core_allocation
    /\ core_ids = CoreIdsOf(MaxCores)
    /\ Len(exec) = 2
    /\ exec[1].affinity = Fixed(MaxCores)
    /\ exec[2].affinity = Range(MaxCores, MaxCores)
    /\ \A i \in Execs : exec[i].pc = "done" /\ exec[i].pinned = NoneOpt
    /\ result = OkUnit

\* ------------------------------------------- more claims on the allocator
RECURSIVE TotalNames(_, _)
\* the number of names recorded under the cores of S
TotalNames(usage, S) ==
    IF S = {} THEN 0
    ELSE LET c == CHOOSE x \in S : TRUE
         IN  Len(usage[c]) + TotalNames(usage, S \ {c})

\* C25: the usage mapping is an append-only log: a call that answers core c
\* appends the name once at the end of c's list and changes no other list,
\* any other call changes none; every list is the names answered for that
\* core in call order, and the names in the mapping are as many as the calls
\* that were answered a core.
C25_UsageAppendOnly ==
    LET usage == Unwrap(allocator).core_usage
    IN  /\ \A c \in DOMAIN usage : usage[c] = NamesOn(c) /\ usage[c] # << >>
        /\ TotalNames(usage, DOMAIN usage) = Len(assigned)
        /\ Called =>
              IF Last.ok /\ IsSome(Last.core)
              THEN /\ usage[Unwrap(Last.core)]
                        = Append(UsageOf(Last.before, Unwrap(Last.core)), Last.task_name)
                   /\ DOMAIN usage = DOMAIN Last.before.core_usage \cup {Unwrap(Last.core)}
                   /\ \A d \in DOMAIN usage \ {Unwrap(Last.core)} :
                         usage[d] = Last.before.core_usage[d]
              ELSE usage = Last.before.core_usage

\* "a" is given core 1 a second time, after "b" and next to core 3 in use
C25_Witness ==
    /\ Called
    /\ core_ids = << 1, 3 >>
    /\ Last.task_name = "a" /\ Last.core = Some(1)
    /\ Last.before.core_usage = (1 :> << "a", "b" >>) @@ (3 :> << "b" >>)
    /\ Unwrap(allocator).core_usage = (1 :> << "a", "b", "a" >>) @@ (3 :> << "b" >>)

\* C27: an allocate call that answers an error or no allocation leaves the
\* allocator as it was (usage mapping, available cores, Auto cursor), and the
\* available cores are those of the construction after every call.
C27_FailedCallChangesNothing ==
    /\ Unwrap(allocator).available_cores = core_ids
    /\ Called =>
          /\ Last.before.available_cores = core_ids
          /\ (~Last.ok \/ Last.core = NoneOpt) =>
                /\ Unwrap(allocator).core_usage = Last.before.core_usage
                /\ Unwrap(allocator).next_auto_core = Last.before.next_auto_core
                /\ Unwrap(allocator) = Last.before

\* a range without cores is refused on an allocator that has made two Auto
\* allocations
C27_Witness ==
    /\ Called
    /\ core_ids = CoreIdsOf(AllocCores)
    /\ Last.affinity = Range(AllocCores, AllocCores)
    /\ ~Last.ok
    /\ Last.before.next_auto_core = 2
    /\ auto_cores = << 0, 1 >>
    /\ Unwrap(allocator) = Last.before

\* ---------------------------------------------- the plan and the execution
\* the core the pre-flight allocator has recorded worker name under, if any
PlannedCore(name) ==
    LET usage == Unwrap(allocator).core_usage
        cs == {c \in DOMAIN usage : SeqContains(usage[c], name)}
    IN  IF cs = {} THEN NoneOpt ELSE Some(CHOOSE c \in cs : TRUE)

\* C26: for every registry that passes validation, every execution pins
\* itself in supervise to the core the pre-flight CoreAllocator assigned to
\* its worker name (to none when none was assigned).
C26_PlanEqualsPinning ==
    (IsSome(allocator) /\ mgr # "setup" /\ result.kind # "InvalidCoreAllocation") =>
        \A i \in Execs : exec[i].pc # "spawned" =>
            exec[i].pinned = PlannedCore(exec[i].name)

\* C28: without shutdown_on_error run() never returns SubsystemsFailed and no
\* worker outcome (Ok, error or panic) requests the shutdown that cancels the
\* other executions.
C28_NeverFailsWithoutShutdownOnError ==
    ~config.shutdown_on_error =>
        /\ result.kind # "SubsystemsFailed"
        /\ shutdown # "failure"

\* C29: the shutdown deadline starts at the shutdown trigger: run() returns
\* Err(Timeout) only after a trigger and a whole shutdown_timeout; while no
\* trigger has occurred the timer has not started, the supervisor has
\* cancelled no token, and run() does not return as long as an execution is
\* unfinished.
C29_DeadlineStartsAtTrigger ==
    /\ result.kind = "Timeout" =>
          shutdown # "none" /\ elapsed = config.shutdown_timeout
    /\ shutdown = "none" =>
          /\ elapsed = 0
          /\ \A i \in Execs : exec[i].token # "cancelled"
          /\ ReturnedAfterStart => AllFinished

\* no trigger: one execution has finished, the other is still in run with
\* its token uncancelled, and run() has not returned
C29_Witness ==
    /\ mgr = "running"
    /\ shutdown = "none"
    /\ Len(exec) = 2
    /\ exec[1].pc = "done"
    /\ exec[2].pc = "main" /\ exec[2].token = "live"
    /\ result = NotReturned

\* nothing but Ok returns so far: no signal, no error, no panic
OnlyOkSoFar ==
    /\ shutdown # "signal"
    /\ \A i \in Execs : exec[i].res \in {"none", "ok"} /\ exec[i].pc # "panicked"

\* C30: with cooperating workers (every main routine returns at some point,
\* every on_shutdown returns) a run() that has started its workers returns;
\* a worker finishing with Ok cancels nobody, and when all main routines
\* have returned Ok without any trigger run() returns Ok(()) without a signal.
C30_TerminatesWhenCooperating ==
    /\ [](OnlyOkSoFar =>
            /\ shutdown = "none"
            /\ \A i \in Execs : exec[i].token # "cancelled"
            /\ ReturnedAfterStart => (AllFinished /\ result = OkUnit))
    /\ (mgr = "running") ~> Returned

\* signals are not caught, both workers returned Ok on their own with their
\* tokens never cancelled, and run() returned Ok
C30_Witness ==
    /\ ~config.catch_signals
    /\ result = OkUnit
    /\ shutdown = "none"
    /\ Len(exec) = 2
    /\ \A i \in Execs : exec[i].res = "ok" /\ exec[i].pc = "done"
                          /\ exec[i].token = "live"

====
